---- MODULE Spec2Model ----
(***************************************************************************)
(* Model of core/pomodoro.py: one PomodoroTimer object, the engine threads *)
(* its start() launches (each executing _run_timer) and one control path   *)
(* that calls start/pause/resume/cancel/is_running.                        *)
(*                                                                         *)
(* An engine thread's position is the source line it is about to execute   *)
(* ("l63" = pomodoro.py line 63).  Every read or write of _is_running,     *)
(* _is_paused and _remaining_time that the code performs outside the lock  *)
(* is a step of its own, so that the interleavings of the unlocked         *)
(* accesses are all explored; a step is merged with its successor only     *)
(* where no other thread can tell the difference (noted at the action).    *)
(***************************************************************************)
EXTENDS Integers, Sequences, FiniteSets, TLC

\* ---- bounds -------------------------------------------------------------
\* number of engine threads one timer object may launch in a behaviour
MaxStarts == 2
\* largest phase duration, in seconds (loop iterations), that Init draws
MaxSeconds == 2
\* number of controller calls the control path makes in a behaviour
MaxCalls == 3
\* largest work_min / break_min of a timer that is followed over whole minutes
MaxMinutes == 2

\* ---- program constants --------------------------------------------------
\* the divisor of "duration // 60" (seconds to minutes)
SecPerMin == 60
\* the task the timer is bound to (the engine never inspects it)
TaskId == 7

Threads == 1..MaxStarts

\* work_seconds / break_seconds = work_min * 60 / break_min * 60.  The loop
\* of _run_timer runs once per second of a phase, so the specification with
\* several engine threads follows phases of a few seconds (the constructor
\* called with work_min = d/60), and the specification of a single run
\* follows phases of whole minutes.
Durations == 1..MaxSeconds
WholeMinutes == {m * SecPerMin : m \in 1..MaxMinutes}

\* Python None, and the value of datetime.now().isoformat(): every timestamp
\* is a non-None string, which is all the code ever tests about it.
None == "None"
Now == "now"

\* lock holders: 0 = free, a thread id = that engine, CallerId = control path
Free == 0
CallerId == -1

VARIABLES
  work_seconds,     \* self.work_seconds
  break_seconds,    \* self.break_seconds
  timer_thread,     \* self._timer_thread: 0 = None, else id of last thread
  is_running,       \* self._is_running
  is_paused,        \* self._is_paused
  remaining_time,   \* self._remaining_time
  session_type,     \* self._session_type
  start_time,       \* self._start_time
  session_id,       \* self._session_id
  lock,             \* self._lock: holder
  eng,              \* per engine thread: pc, and _run_timer's arguments
  sessions,         \* rows of table sessions, in insertion order
  cpc,              \* position of the control path inside a controller call
  hist,             \* the last two completed controller calls (op, ret)
  ncalls,           \* history: number of controller calls begun
  cancelledIn,      \* history: <<thread, kind>> phases a true cancel() hit
  frozen,           \* history: remaining_time at a true pause(), or -1
  afterCancel       \* history: per thread, its decrements since a true
                    \* cancel() found it inside the loop, or -1

vars == <<work_seconds, break_seconds, timer_thread, is_running, is_paused,
          remaining_time, session_type, start_time, session_id, lock, eng,
          sessions, cpc, hist, ncalls, cancelledIn, frozen, afterCancel>>

config == <<work_seconds, break_seconds>>
fields == <<is_running, is_paused, remaining_time, session_type, start_time>>
db == <<sessions, session_id>>
ctl == <<cpc, hist, ncalls>>
ghost == <<cancelledIn, frozen, afterCancel>>

\* ---- PomodoroTimer.__init__ ---------------------------------------------
InitWith(W, B) ==
  /\ work_seconds \in W
  /\ break_seconds \in B
  /\ timer_thread = 0
  /\ is_running = FALSE
  /\ is_paused = FALSE
  /\ remaining_time = 0
  /\ session_type = "trabajo"
  /\ start_time = None
  /\ session_id = None
  /\ lock = Free
  /\ eng = [t \in Threads |-> [pc |-> "idle", duration |-> 0, kind |-> "trabajo"]]
  /\ sessions = <<>>
  /\ cpc = "ready"
  /\ hist = <<>>
  /\ ncalls = 0
  /\ cancelledIn = {}
  /\ frozen = -1
  /\ afterCancel = [t \in Threads |-> -1]

Init == InitWith(Durations, Durations)

InitOneRun == InitWith(WholeMinutes, WholeMinutes)

\* ---- helpers ------------------------------------------------------------
Goto(t, p) == eng' = [eng EXCEPT ![t].pc = p]

At(t, p) == eng[t].pc = p

\* a thread is executing _run_timer
Live(t) == eng[t].pc \notin {"idle", "done", "dead"}

\* thread t has executed line 65 of the phase it is in and not left the phase
InPhase(t) == Live(t) /\ eng[t].pc \notin {"l63", "l65"}

\* thread t is inside the while loop of line 76 (at its test or in its body)
InLoop(t) == eng[t].pc \in {"l76a", "l76b", "l77", "l90", "l93"}

Returned(op, ret) ==
  hist' = IF Len(hist) < 2 THEN Append(hist, [op |-> op, ret |-> ret])
          ELSE <<hist[2], [op |-> op, ret |-> ret]>>

\* the row _save_session inserts; "by" and "at" are history fields (the
\* writing thread and the call site), not columns
SessionRow(t, started, duration_minutes, stype, end_time, site) ==
  [task_id |-> TaskId,
   start_time |-> started,
   end_time |-> IF end_time = None THEN Now ELSE end_time,
   duration_minutes |-> duration_minutes,
   type |-> stype,
   by |-> t,
   at |-> site]

SaveSession(t, started, duration_minutes, stype, end_time, site) ==
  /\ sessions' = Append(sessions, SessionRow(t, started, duration_minutes, stype, end_time, site))
  /\ session_id' = Len(sessions) + 1

\* ---- _run_timer ----------------------------------------------------------
\* self._remaining_time = duration; self._session_type = session_type
\* (one step: no code ever reads _session_type, so the second write is
\* invisible to every other thread)
RunSetRemaining(t) ==
  /\ At(t, "l63")
  /\ remaining_time' = eng[t].duration
  /\ session_type' = eng[t].kind
  /\ Goto(t, "l65")
  /\ UNCHANGED <<config, timer_thread, is_running, is_paused, start_time, lock,
                 db, ctl, ghost>>

\* self._is_running = True
RunSetRunning(t) ==
  /\ At(t, "l65")
  /\ is_running' = TRUE
  /\ Goto(t, "l66")
  /\ UNCHANGED <<config, timer_thread, is_paused, remaining_time, session_type,
                 start_time, lock, db, ctl, ghost>>

\* self._is_paused = False
RunClearPaused(t) ==
  /\ At(t, "l66")
  /\ is_paused' = FALSE
  /\ Goto(t, "l74")
  /\ UNCHANGED <<config, timer_thread, is_running, remaining_time, session_type,
                 start_time, lock, db, ctl, ghost>>

\* self._save_session(duration // 60, session_type, end_time=None)
\* preceded by self._start_time = datetime.now().isoformat(), which only
\* _save_session reads: the write and the insert are one step
RunSaveStart(t) ==
  /\ At(t, "l74")
  /\ start_time' = Now
  /\ SaveSession(t, Now, eng[t].duration \div SecPerMin, eng[t].kind, None, "start")
  /\ Goto(t, "l76a")
  /\ UNCHANGED <<config, timer_thread, is_running, is_paused, remaining_time,
                 session_type, lock, ctl, ghost>>

\* while self._remaining_time > 0 ...
RunLoopTestRemaining(t) ==
  /\ At(t, "l76a")
  /\ Goto(t, IF remaining_time > 0 THEN "l76b" ELSE "l96")
  /\ UNCHANGED <<config, timer_thread, fields, lock, db, ctl, ghost>>

\* ... and self._is_running:
RunLoopTestRunning(t) ==
  /\ At(t, "l76b")
  /\ Goto(t, IF is_running THEN "l77" ELSE "l96")
  /\ UNCHANGED <<config, timer_thread, fields, lock, db, ctl, ghost>>

\* with self._lock: if not self._is_paused:
\* (one step: between the acquisition and the test no other lock holder can
\* run, and an unlocked write that falls between them can as well fall
\* before the acquisition)
RunAcquire(t) ==
  /\ At(t, "l77")
  /\ lock = Free
  /\ lock' = t
  /\ Goto(t, IF ~is_paused THEN "l90" ELSE "l93")
  /\ UNCHANGED <<config, timer_thread, fields, db, ctl, ghost>>

\* time.sleep(1); self._remaining_time -= 1; leave the with block
RunTick(t) ==
  /\ At(t, "l90")
  /\ remaining_time' = remaining_time - 1
  /\ lock' = Free
  /\ Goto(t, "l76a")
  /\ afterCancel' = IF afterCancel[t] = -1 THEN afterCancel
                    ELSE [afterCancel EXCEPT ![t] = IF @ < 2 THEN @ + 1 ELSE @]
  /\ UNCHANGED <<config, timer_thread, is_running, is_paused, session_type,
                 start_time, db, ctl, cancelledIn, frozen>>

\* else: time.sleep(1); leave the with block
RunIdle(t) ==
  /\ At(t, "l93")
  /\ lock' = Free
  /\ Goto(t, "l76a")
  /\ UNCHANGED <<config, timer_thread, fields, db, ctl, ghost>>

\* if self._is_running:
RunFinTest(t) ==
  /\ At(t, "l96")
  /\ Goto(t, IF is_running THEN "l99" ELSE "l109")
  /\ UNCHANGED <<config, timer_thread, fields, lock, db, ctl, ghost>>

\* RunSaveEnd without the chaining of line 105: the thread ends after the
\* completion row of the work phase
RunSaveEnd_NoChain(t) ==
  /\ At(t, "l99")
  /\ SaveSession(t, start_time, eng[t].duration \div SecPerMin, eng[t].kind, Now, "end")
  /\ Goto(t, "done")
  /\ UNCHANGED <<config, timer_thread, fields, lock, ctl, ghost>>

\* RunSaveEnd with the test of line 102 dropped: every completed phase,
\* the break included, chains into a break
RunSaveEnd_ChainAlways(t) ==
  /\ At(t, "l99")
  /\ SaveSession(t, start_time, eng[t].duration \div SecPerMin, eng[t].kind, Now, "end")
  /\ eng' = [eng EXCEPT ![t] = [pc |-> "l63", duration |-> break_seconds,
                                kind |-> "descanso"]]
  /\ UNCHANGED <<config, timer_thread, fields, lock, ctl, ghost>>

\* end_time = datetime.now().isoformat(); self._save_session(..., end_time);
\* if session_type == "trabajo": self._run_timer(self.break_seconds, "descanso")
\* Nothing follows the recursive call, so the thread continues at line 63
\* with the new arguments and ends when that activation ends.
RunSaveEnd(t) ==
  /\ At(t, "l99")
  /\ SaveSession(t, start_time, eng[t].duration \div SecPerMin, eng[t].kind, Now, "end")
  /\ eng' = IF eng[t].kind = "trabajo"
            THEN [eng EXCEPT ![t] = [pc |-> "l63", duration |-> break_seconds,
                                     kind |-> "descanso"]]
            ELSE [eng EXCEPT ![t].pc = "done"]
  /\ UNCHANGED <<config, timer_thread, fields, lock, ctl, ghost>>

\* else: self._is_running = False
RunCancelClearRunning(t) ==
  /\ At(t, "l109")
  /\ is_running' = FALSE
  /\ Goto(t, "l110")
  /\ UNCHANGED <<config, timer_thread, is_paused, remaining_time, session_type,
                 start_time, lock, db, ctl, ghost>>

\* self._is_paused = False
RunCancelClearPaused(t) ==
  /\ At(t, "l110")
  /\ is_paused' = FALSE
  /\ Goto(t, "done")
  /\ UNCHANGED <<config, timer_thread, is_running, remaining_time, session_type,
                 start_time, lock, db, ctl, ghost>>

\* ---- _save_session failing ------------------------------------------------
\* cursor.execute or conn.commit raises inside the try of lines 40-54: the
\* except clause of lines 56-57 prints the error, no row is stored and
\* _session_id keeps its value
SaveFailsCaught == UNCHANGED db

\* line 74 with a failing insert or commit: _run_timer goes on to the loop
RunSaveStartCaught(t) ==
  /\ At(t, "l74")
  /\ start_time' = Now
  /\ SaveFailsCaught
  /\ Goto(t, "l76a")
  /\ UNCHANGED <<config, timer_thread, is_running, is_paused, remaining_time,
                 session_type, lock, ctl, ghost>>

\* line 74 with get_connection() or conn.cursor() raising at lines 38-39,
\* which precede the try: the exception leaves _save_session and
\* _run_timer, and the thread ends ("dead") with the fields as they are
RunSaveStartRaises(t) ==
  /\ At(t, "l74")
  /\ start_time' = Now
  /\ Goto(t, "dead")
  /\ UNCHANGED <<config, timer_thread, is_running, is_paused, remaining_time,
                 session_type, lock, db, ctl, ghost>>

\* line 99 with a failing insert or commit: the phase ends as in RunSaveEnd
RunSaveEndCaught(t) ==
  /\ At(t, "l99")
  /\ SaveFailsCaught
  /\ eng' = IF eng[t].kind = "trabajo"
            THEN [eng EXCEPT ![t] = [pc |-> "l63", duration |-> break_seconds,
                                     kind |-> "descanso"]]
            ELSE [eng EXCEPT ![t].pc = "done"]
  /\ UNCHANGED <<config, timer_thread, fields, lock, ctl, ghost>>

\* line 99 with get_connection() or conn.cursor() raising
RunSaveEndRaises(t) ==
  /\ At(t, "l99")
  /\ Goto(t, "dead")
  /\ UNCHANGED <<config, timer_thread, fields, lock, db, ctl, ghost>>

\* ---- controller calls ---------------------------------------------------
\* the control path begins a call
Call ==
  /\ cpc = "ready"
  /\ ncalls < MaxCalls
  /\ ncalls' = ncalls + 1

\* start(): accepted, a new thread is created with (work_seconds, "trabajo");
\* n bounds the number of threads launched so far
StartUpTo(n) ==
  /\ Call
  /\ ~is_running
  /\ timer_thread < n
  /\ timer_thread' = timer_thread + 1
  /\ eng' = [eng EXCEPT ![timer_thread + 1] =
               [pc |-> "l63", duration |-> work_seconds, kind |-> "trabajo"]]
  /\ Returned("start", TRUE)
  /\ afterCancel' = [t \in Threads |-> -1]
  /\ UNCHANGED <<config, fields, lock, db, cpc, cancelledIn, frozen>>

StartAccepted == StartUpTo(MaxStarts)

\* the only accepted start() of a timer that is started once
StartOnce == StartUpTo(1)

\* start(): rejected
StartRejected ==
  /\ Call
  /\ is_running
  /\ Returned("start", FALSE)
  /\ UNCHANGED <<config, timer_thread, fields, lock, eng, db, cpc, ghost>>

\* is_running()
IsRunning ==
  /\ Call
  /\ Returned("is_running", is_running)
  /\ UNCHANGED <<config, timer_thread, fields, lock, eng, db, cpc, ghost>>

\* pause(), resume(), cancel(): with self._lock:
CallAcquire ==
  /\ Call
  /\ lock = Free
  /\ lock' = CallerId
  /\ cpc' \in {"pause", "resume", "cancel"}
  /\ UNCHANGED <<config, timer_thread, fields, eng, db, hist, ghost>>

Pause ==
  /\ cpc = "pause"
  /\ is_paused' = IF is_running /\ ~is_paused THEN TRUE ELSE is_paused
  /\ Returned("pause", is_running /\ ~is_paused)
  /\ frozen' = IF is_running /\ ~is_paused THEN remaining_time ELSE frozen
  /\ lock' = Free
  /\ cpc' = "ready"
  /\ UNCHANGED <<config, timer_thread, is_running, remaining_time, session_type,
                 start_time, eng, db, ncalls, cancelledIn, afterCancel>>

\* Resume without the test of _is_paused: resume() succeeds whenever the
\* timer is running
Resume_NoPausedTest ==
  /\ cpc = "resume"
  /\ is_paused' = IF is_running THEN FALSE ELSE is_paused
  /\ Returned("resume", is_running)
  /\ frozen' = IF is_running THEN -1 ELSE frozen
  /\ lock' = Free
  /\ cpc' = "ready"
  /\ UNCHANGED <<config, timer_thread, is_running, remaining_time, session_type,
                 start_time, eng, db, ncalls, cancelledIn, afterCancel>>

\* resume(): with self._lock: if self._is_running and self._is_paused:
Resume ==
  /\ cpc = "resume"
  /\ is_paused' = IF is_running /\ is_paused THEN FALSE ELSE is_paused
  /\ Returned("resume", is_running /\ is_paused)
  /\ frozen' = IF is_running /\ is_paused THEN -1 ELSE frozen
  /\ lock' = Free
  /\ cpc' = "ready"
  /\ UNCHANGED <<config, timer_thread, is_running, remaining_time, session_type,
                 start_time, eng, db, ncalls, cancelledIn, afterCancel>>

\* cancel(): if self._is_running: self._is_running = False
\* (the history records the call as a successful cancel at this write, from
\* which on it cannot but return True)
CancelTest ==
  /\ cpc = "cancel"
  /\ IF is_running
     THEN /\ is_running' = FALSE
          /\ cpc' = "cancel148"
          /\ cancelledIn' = cancelledIn \cup
                {<<t, eng[t].kind>> : t \in {u \in Threads : InPhase(u)}}
          /\ frozen' = -1
          /\ afterCancel' = [t \in Threads |->
                IF InLoop(t) /\ remaining_time > 0 THEN 0 ELSE -1]
          /\ UNCHANGED <<lock, hist>>
     ELSE /\ Returned("cancel", FALSE)
          /\ lock' = Free
          /\ cpc' = "ready"
          /\ UNCHANGED <<is_running, ghost>>
  /\ UNCHANGED <<config, timer_thread, is_paused, remaining_time, session_type,
                 start_time, eng, db, ncalls>>

\* self._is_paused = False; return True
CancelClearPaused ==
  /\ cpc = "cancel148"
  /\ is_paused' = FALSE
  /\ Returned("cancel", TRUE)
  /\ lock' = Free
  /\ cpc' = "ready"
  /\ UNCHANGED <<config, timer_thread, is_running, remaining_time, session_type,
                 start_time, eng, db, ncalls, ghost>>

Next ==
  \/ \E t \in Threads : RunSetRemaining(t)
  \/ \E t \in Threads : RunSetRunning(t)
  \/ \E t \in Threads : RunClearPaused(t)
  \/ \E t \in Threads : RunSaveStart(t)
  \/ \E t \in Threads : RunLoopTestRemaining(t)
  \/ \E t \in Threads : RunLoopTestRunning(t)
  \/ \E t \in Threads : RunAcquire(t)
  \/ \E t \in Threads : RunTick(t)
  \/ \E t \in Threads : RunIdle(t)
  \/ \E t \in Threads : RunFinTest(t)
  \/ \E t \in Threads : RunSaveEnd(t)
  \/ \E t \in Threads : RunCancelClearRunning(t)
  \/ \E t \in Threads : RunCancelClearPaused(t)
  \/ StartAccepted
  \/ StartRejected
  \/ IsRunning
  \/ CallAcquire
  \/ Pause
  \/ Resume
  \/ CancelTest
  \/ CancelClearPaused

Spec == Init /\ [][Next]_vars

\* The behaviours of one timer run: start() is accepted once, and the phases
\* last whole minutes.
NextOneRun ==
  \/ \E t \in Threads : RunSetRemaining(t)
  \/ \E t \in Threads : RunSetRunning(t)
  \/ \E t \in Threads : RunClearPaused(t)
  \/ \E t \in Threads : RunSaveStart(t)
  \/ \E t \in Threads : RunLoopTestRemaining(t)
  \/ \E t \in Threads : RunLoopTestRunning(t)
  \/ \E t \in Threads : RunAcquire(t)
  \/ \E t \in Threads : RunTick(t)
  \/ \E t \in Threads : RunIdle(t)
  \/ \E t \in Threads : RunFinTest(t)
  \/ \E t \in Threads : RunSaveEnd(t)
  \/ \E t \in Threads : RunCancelClearRunning(t)
  \/ \E t \in Threads : RunCancelClearPaused(t)
  \/ StartOnce
  \/ StartRejected
  \/ IsRunning
  \/ CallAcquire
  \/ Pause
  \/ Resume
  \/ CancelTest
  \/ CancelClearPaused

SpecOneRun == InitOneRun /\ [][NextOneRun]_vars

\* The behaviours of one timer run whose _save_session calls may fail.
NextFault ==
  \/ \E t \in Threads : RunSaveStartCaught(t)
  \/ \E t \in Threads : RunSaveStartRaises(t)
  \/ \E t \in Threads : RunSaveEndCaught(t)
  \/ \E t \in Threads : RunSaveEndRaises(t)
  \/ NextOneRun

SpecFault == Init /\ [][NextFault]_vars

TypeOK ==
  /\ is_running \in BOOLEAN
  /\ is_paused \in BOOLEAN
  /\ timer_thread \in 0..MaxStarts
  /\ lock \in {Free, CallerId} \cup Threads
  /\ ncalls \in 0..MaxCalls
  /\ Len(hist) <= 2
  /\ \A t \in Threads : eng[t].kind \in {"trabajo", "descanso"}
  /\ \A t \in Threads : afterCancel[t] \in -1..2

\* ---- vocabulary of the properties ---------------------------------------
Call2(op1, ret1, op2, ret2) ==
  /\ Len(hist) = 2
  /\ hist[1] = [op |-> op1, ret |-> ret1]
  /\ hist[2] = [op |-> op2, ret |-> ret2]

LastCall(op, ret) ==
  /\ Len(hist) >= 1
  /\ hist[Len(hist)] = [op |-> op, ret |-> ret]

LiveThreads == {t \in Threads : Live(t)}

\* the rows thread t wrote for its phase k, as the sequence of their sites
RECURSIVE SitesOf(_, _, _)
SitesOf(rows, t, k) ==
  IF rows = <<>> THEN <<>>
  ELSE LET r == Head(rows)
       IN IF r.by = t /\ r.type = k
          THEN <<r.at>> \o SitesOf(Tail(rows), t, k)
          ELSE SitesOf(Tail(rows), t, k)

\* thread t has left its phase k
PhaseOver(t, k) ==
  \/ eng[t].pc = "done"
  \/ k = "trabajo" /\ eng[t].kind = "descanso"

\* the columns of a row, without the history fields
Columns(r) == [type |-> r.type, duration_minutes |-> r.duration_minutes,
               task_id |-> r.task_id, site |-> r.at]

Expected(k, d, site) == [type |-> k, duration_minutes |-> d \div 60,
                         task_id |-> TaskId, site |-> site]

\* the four rows of one uncancelled work -> break chain
FullChain ==
  << Expected("trabajo", work_seconds, "start"),
     Expected("trabajo", work_seconds, "end"),
     Expected("descanso", break_seconds, "start"),
     Expected("descanso", break_seconds, "end") >>

IsPrefix(s, r) == Len(s) <= Len(r) /\ \A i \in 1..Len(s) : s[i] = r[i]

\* ---- C1 -----------------------------------------------------------------
\* C1: at most one thread executes _run_timer at any time.
C1_SingleEngine == Cardinality(LiveThreads) <= 1

\* ---- C2 -----------------------------------------------------------------
\* C2: of two start() calls in succession, the second one, made while the
\* thread the first one launched is still executing, is not accepted.
C2_SecondStartRejected ==
  ~ ( /\ Call2("start", TRUE, "start", TRUE)
      /\ Live(timer_thread - 1) )

\* ---- C3 -----------------------------------------------------------------
\* C3: is_running() called right after a start() that returned true does
\* not return false.
C3_RunningAfterStart == ~ Call2("start", TRUE, "is_running", FALSE)

\* ---- C4 -----------------------------------------------------------------
\* C4: an engine whose work phase a successful cancel() hit never enters the
\* break phase and writes no break record.
C4_NoBreakAfterCancel ==
  \A t \in Threads :
    <<t, "trabajo">> \in cancelledIn =>
      /\ eng[t].kind = "trabajo"
      /\ SitesOf(sessions, t, "descanso") = <<>>

\* ---- C5 -----------------------------------------------------------------
\* C5: a phase writes its start row and then, only if no successful
\* cancel() hit it, its completion row: a phase that is over has written
\* one row if it was cancelled and two if it completed.
C5_RowsPerPhase ==
  \A t \in Threads : \A k \in {"trabajo", "descanso"} :
    /\ IsPrefix(SitesOf(sessions, t, k), <<"start", "end">>)
    /\ <<t, k>> \in cancelledIn => IsPrefix(SitesOf(sessions, t, k), <<"start">>)
    /\ (<<t, k>> \in cancelledIn /\ PhaseOver(t, k))
         => SitesOf(sessions, t, k) = <<"start">>

\* ---- C6 -----------------------------------------------------------------
\* C6: the row written when a phase begins has no end_time.
C6_StartRowOpen ==
  \A i \in 1..Len(sessions) :
    sessions[i].at = "start" => sessions[i].end_time = None

\* ---- C7 -----------------------------------------------------------------
\* C7: a timer started once and not cancelled writes, in this order, the
\* work start row, the work completion row, the break start row and the
\* break completion row, with the planned minutes of each phase; when its
\* thread ends exactly these four rows exist.
C7_FourRowsInOrder ==
  (timer_thread = 1 /\ cancelledIn = {}) =>
    /\ IsPrefix([i \in 1..Len(sessions) |-> Columns(sessions[i])], FullChain)
    /\ eng[1].pc = "done" => Len(sessions) = 4

\* the chain has run to its end after the single call start(), with a
\* break shorter than the work phase
C7_Witness ==
  /\ timer_thread = 1
  /\ ncalls = 1
  /\ cancelledIn = {}
  /\ eng[1].pc = "done"
  /\ Len(sessions) = 4
  /\ sessions[3].type = "descanso"
  /\ sessions[3].duration_minutes < sessions[1].duration_minutes

\* ---- C8 -----------------------------------------------------------------
\* C8: once the work -> break chain has completed without a cancel, the
\* running flag is false.
C8_IdleAfterChain ==
  ( /\ timer_thread = 1
    /\ cancelledIn = {}
    /\ eng[1].pc = "done"
    /\ Len(sessions) = 4 ) => ~ is_running

\* ---- C9 -----------------------------------------------------------------
\* C9: paused is never true while running is false.
C9_PausedImpliesRunning == is_paused => is_running

\* ---- C10 ----------------------------------------------------------------
\* C10: from a pause() that returned true until the next resume() or
\* cancel() that returns true, remaining_time keeps the value it had when
\* pause() returned.
C10_FrozenWhilePaused == frozen # -1 => remaining_time = frozen

\* ---- C11 ----------------------------------------------------------------
\* C11: from a pause() that returned true until the next resume() or
\* cancel() that returns true, no step writes a row to sessions and no step
\* clears the paused flag.
C11_QuietWhilePaused ==
  [][ (frozen # -1 /\ frozen' # -1) =>
        /\ sessions' = sessions
        /\ is_paused => is_paused' ]_vars

\* ---- C12 ----------------------------------------------------------------
\* C12: of two cancel() calls in succession (no start() between them), the
\* second one does not return true after the first one returned true.
C12_SecondCancelFalse == ~ Call2("cancel", TRUE, "cancel", TRUE)

\* ---- C13 ----------------------------------------------------------------
\* the work -> break chain of the only thread has completed without a cancel
ChainCompleted ==
  /\ timer_thread = 1
  /\ cancelledIn = {}
  /\ eng[1].pc = "done"
  /\ Len(sessions) = 4

\* C13: a pause() whose body executes before any start(), right after a
\* cancel() that returned true, or after the chain has completed, returns
\* false and changes no field of the timer.
C13_PauseNoOp ==
  [][ ( /\ cpc = "pause"
        /\ cpc' = "ready"
        /\ \/ timer_thread = 0
           \/ LastCall("cancel", TRUE)
           \/ ChainCompleted )
      => /\ LastCall("pause", FALSE)'
         /\ UNCHANGED fields ]_vars

\* ---- C14 ----------------------------------------------------------------
\* C14: the body of resume() returns true and clears paused when running
\* and paused both hold, and otherwise (running and not paused, or not
\* running) returns false and changes no field of the timer.
C14_ResumeGuard ==
  [][ (cpc = "resume" /\ cpc' = "ready") =>
        IF is_running /\ is_paused
        THEN /\ LastCall("resume", TRUE)'
             /\ ~ is_paused'
             /\ UNCHANGED <<is_running, remaining_time, session_type, start_time>>
        ELSE /\ LastCall("resume", FALSE)'
             /\ UNCHANGED fields ]_vars

\* resume() was just rejected on a timer that is counting down unpaused
C14_Witness ==
  /\ LastCall("resume", FALSE)
  /\ cpc = "ready"
  /\ is_running
  /\ ~ is_paused
  /\ \E t \in Threads : At(t, "l77")

\* ---- C15 ----------------------------------------------------------------
\* C15: after a cancel() that returned true while a thread was inside the
\* countdown loop with time remaining, and until the next accepted start(),
\* that thread decrements remaining_time at most once more, takes the
\* cancelled branch (never the completion branch, never a chained phase),
\* and the running flag stays false.
C15_CancelObserved ==
  \A t \in Threads :
    afterCancel[t] >= 0 =>
      /\ afterCancel[t] <= 1
      /\ \/ InLoop(t)
         \/ eng[t].pc \in {"l96", "l109", "l110", "done"}
      /\ ~ is_running

\* ---- C16 ----------------------------------------------------------------
\* C16: no failure of _save_session (at the connection, the insert or the
\* commit, for a start row or a completion row) ends the engine thread: the
\* thread never dies of the failure, so it goes on to count down and to
\* chain, and does not leave the running flag set behind it.
C16_SaveFailureNotFatal == \A t \in Threads : ~ At(t, "dead")

\* ---- C17 ----------------------------------------------------------------
\* C17: every step that lowers remaining_time starts in a state where
\* running is true and paused is false.
C17_DecrementOnlyWhileRunning ==
  [][ remaining_time' < remaining_time => (is_running /\ ~ is_paused) ]_vars

\* ---- C18 ----------------------------------------------------------------
\* C18: remaining_time is never negative.
C18_RemainingNonNegative == remaining_time >= 0

\* ---- C19 ----------------------------------------------------------------
\* C19: an engine thread that is suspended in time.sleep(1) (lines 90 and
\* 93) does not hold the lock, so that a pause(), resume() or cancel() call
\* never waits for the sleep to end.
C19_NoLockWhileSleeping ==
  \A t \in Threads : (At(t, "l90") \/ At(t, "l93")) => lock # t

\* ---- C20 ----------------------------------------------------------------
\* the lines of _run_timer that read or write _is_running, _is_paused or
\* _remaining_time: 63, 65, 66, the loop condition of 76, the body of the
\* with block, 96, 109 and 110
AccessLines == {"l63", "l65", "l66", "l76a", "l76b", "l90", "l93",
                "l96", "l109", "l110"}

\* C20: an engine thread that is about to read or write running, paused or
\* remaining_time holds the lock.
C20_AccessUnderLock ==
  \A t \in Threads : eng[t].pc \in AccessLines => lock = t

\* ---- C21 ----------------------------------------------------------------
\* the rows thread t wrote, each as <<type, site>>, in insertion order
RECURSIVE PhasesOf(_, _)
PhasesOf(rows, t) ==
  IF rows = <<>> THEN <<>>
  ELSE LET r == Head(rows)
       IN IF r.by = t
          THEN << <<r.type, r.at>> >> \o PhasesOf(Tail(rows), t)
          ELSE PhasesOf(Tail(rows), t)

\* one work phase followed by one break phase
OneChain == << <<"trabajo", "start">>, <<"trabajo", "end">>,
               <<"descanso", "start">>, <<"descanso", "end">> >>

\* C21: the thread of one accepted start() runs a work phase, then at most
\* one break phase, and then ends: what it writes is a prefix of work
\* start, work end, break start, break end (no phase follows a completed
\* break, and a break is begun only right after the completion row of the
\* work phase), and it is in a break only after a completed work phase.
C21_ChainOneDeep ==
  \A t \in Threads :
    /\ IsPrefix(PhasesOf(sessions, t), OneChain)
    /\ eng[t].kind = "descanso" => Len(PhasesOf(sessions, t)) >= 2
    /\ (At(t, "done") /\ Len(PhasesOf(sessions, t)) = 4) => eng[t].kind = "descanso"

\* a thread has ended after its completed break
C21_Witness ==
  \E t \in Threads :
    /\ At(t, "done")
    /\ eng[t].kind = "descanso"
    /\ PhasesOf(sessions, t) = OneChain

\* ---- C22 ----------------------------------------------------------------
\* the last two calls were a cancel() and then a start() that both returned
\* true: thread 1 is the cancelled engine, thread 2 the new run, and no
\* call has touched the new run
NewRun == Call2("cancel", TRUE, "start", TRUE) /\ timer_thread = 2

\* C22: while the new run has not been cancelled, (1) the running flag it
\* set at line 65 stays true for as long as it is in a phase, (2) it never
\* takes the cancelled branch of lines 106-110, and (3) the cancelled
\* thread does not pass the test of line 96 (to write a completion row and
\* chain) for the phase the cancel hit.
C22_FreshRunUnaffected ==
  [][ NewRun' =>
        /\ InPhase(2)' => is_running'
        /\ eng'[2].pc \notin {"l109", "l110"}
        /\ ~ ( /\ NewRun
               /\ <<1, eng[1].kind>> \in cancelledIn
               /\ At(1, "l96")
               /\ eng'[1].pc = "l99" ) ]_vars
====
